---- MODULE Spec2Model ----
(***************************************************************************)
(* The live-update bridge of the mission-control dashboard                 *)
(* (examples/mission-control-dashboard/main.go): the mutation poller       *)
(* (pollMutations), the broadcast channel wsBroadcast, the broadcaster     *)
(* (handleWebSocketBroadcast), the connection registry wsClients guarded   *)
(* by wsClientsMu, and the per-connection handler (handleWebSocket); and    *)
(* the browser side (web/static/js/app.js): the WebSocket with its         *)
(* reconnect timer, the fallback interval and the four data loads.         *)
(***************************************************************************)
EXTENDS Integers, Sequences, FiniteSets, TLC

(* ------------------------------ bounds --------------------------------- *)
\* number of WebSocket connections that are ever accepted in a run
NumConns == 2
\* capacity of the wsBroadcast channel in the model (256 in the source)
QueueCap == 1
\* number of mutation events the daemon hands out in a run
MaxEvents == 2
\* longest batch one GetMutations call returns
MaxBatch == 2

\* number of HTTP read requests that can be in progress at once
NumReqs == 2
\* number of WebSocket objects of the page that are not yet garbage
MaxSockets == 2
\* number of times the daemon's data changes while the page is watched
MaxVersion == 1

\* delay of the reconnect timer, in milliseconds
ReconnectDelay == 5000

\* time.Time has nanosecond resolution; UnixMilli counts whole milliseconds
NanosPerMilli == 1000000

Conns == 1..NumConns

Sockets == 1..MaxSockets

Reqs == 1..NumReqs

\* the read handlers that call the daemon: handleAPIIssues,
\* handleAPIIssueDetail, handleAPIReady, handleAPIStats, handleAPIEpics
Handlers == {"issues", "detail", "ready", "stats", "epics"}

\* the data loads of the page, one per view
Loads == {"loadStats", "loadReadyQueue", "loadEpics", "loadAllIssues"}

\* event timestamps (nanoseconds) the daemon may report; a batch may repeat
\* one and may list them in any order
Timestamps == {1500000, 2000000}

(* ------------------------------ state ---------------------------------- *)
VARIABLES
    mainPc,          \* main(): "start", "serving" (ListenAndServe), "exited"
    daemonClient,    \* TRUE when the package variable daemonClient is non-nil
    daemonClientMu,  \* daemonClientMu: "free", or locked by "poller" or "http"
    wsClients,       \* the registry: the set of connections in the map
    wsClientsMu,     \* holder of wsClientsMu, see MuFree, MuHub, MuConn
    wsBroadcast,     \* the buffered channel: payloads waiting, oldest first
    pollerPc,        \* pollMutations: "off","wait","lock","call","resp","send","advance"
    lastPollTime,    \* the poller's cursor (milliseconds)
    since,           \* this tick's Since argument of GetMutations
    resp,            \* this tick's result of GetMutations
    mutations,       \* this tick's decoded batch
    idx,             \* position of the range loop in mutations
    failedSince,     \* history: the Since argument of the previous tick if
                     \* that tick failed, -1 otherwise
    nextId,          \* number of events the daemon has handed out so far
    hubPc,           \* handleWebSocketBroadcast: "off","recv","lock","iter"
    hubMsg,          \* the message the broadcaster holds
    hubTodo,         \* connections the range over wsClients has yet to visit
    connPc,          \* per connection: position of handleWebSocket
    connClosed,      \* connections whose transport has been closed (Close())
    pushed,          \* history: every payload the poller sent on the channel
    dequeued,        \* history: every payload the broadcaster received
    written,         \* history, per connection: payloads written successfully
    offered,         \* history, per connection: number of the last event the
                     \* broadcaster tried to write to it (0: none)
    failedAt,        \* history, per connection: number of the event whose
                     \* write failed (0: none)
    firstEvent,      \* history, per connection: number of the first event
                     \* whose fan-out starts after the registration (0: not
                     \* registered)
    reqPc,           \* per HTTP request: "idle","lock","call","done"
    reqKind,         \* per HTTP request: its handler ("none" when idle)
    reqOutcome,      \* history, per request: what the handler ran into:
                     \* "none","badid","nil","err","malformed","ok"
    reqStatus,       \* per HTTP request: the status it answered ("none" so far)
    pagePc,          \* the page: "loading", "ready" (DOMContentLoaded ran)
    sockState,       \* per WebSocket object: "none","connecting","open",
                     \* "errored" (error fired, close to come),"closed"
    ws,              \* the global ws: the latest WebSocket object (0: null)
    wsConnected,     \* the global wsConnected
    timers,          \* pending setTimeout(connectWebSocket, ...): their delays
    lastEvent,       \* history: the last callback of the page that ran
    triggered,       \* history: the loads that callback called
    pending,         \* loads whose fetch is in flight
    views,           \* per load: version of the daemon's data its view shows
    upstream         \* version of the daemon's data

serverVars == <<mainPc, daemonClient, daemonClientMu, wsClients, wsClientsMu,
                wsBroadcast, pollerPc, lastPollTime, since, resp, mutations,
                idx, failedSince, nextId, hubPc, hubMsg, hubTodo, connPc,
                connClosed, pushed, dequeued, written, offered, failedAt,
                firstEvent, reqPc, reqKind, reqOutcome, reqStatus>>

clientVars == <<pagePc, sockState, ws, wsConnected, timers, lastEvent,
                triggered, pending, views, upstream>>

vars == <<serverVars, clientVars>>

mainVars   == <<mainPc, daemonClient>>
pollerVars == <<pollerPc, lastPollTime, since, resp, mutations, idx,
                failedSince, nextId, daemonClientMu, pushed>>
hubVars    == <<hubPc, hubMsg, hubTodo, dequeued, written, offered, failedAt>>
connVars   == <<connPc, connClosed, firstEvent>>
reqVars    == <<reqPc, reqKind, reqOutcome, reqStatus>>

(* ----------------------------- helpers --------------------------------- *)
MuFree    == [by |-> "none", conn |-> 0]
MuHub     == [by |-> "hub", conn |-> 0]
MuConn(c) == [by |-> "handler", conn |-> c]

\* time.Time.UnixMilli(): whole milliseconds since the epoch
UnixMilli(t) == t \div NanosPerMilli

\* json.Marshal of one rpc.MutationEvent: the payload put on the channel
Marshal(m) == <<m.id, m.ts>>

\* json.Unmarshal of resp.Data into []rpc.MutationEvent
Unmarshal(data) == [i \in 1..Len(data) |-> [id |-> data[i][1], ts |-> data[i][2]]]

\* the response bodies the daemon can produce next: batches of at most
\* MaxBatch fresh events, numbered in the order the daemon lists them
Batches ==
    LET lens == {n \in 0..MaxBatch : nextId + n <= MaxEvents}
    IN  UNION {{[i \in 1..n |-> <<nextId + i, f[i]>>] : f \in [1..n -> Timestamps]}
               : n \in lens}

\* no response in hand
NoResp == [err |-> FALSE, ok |-> TRUE, data |-> <<>>]

\* the largest element of a non-empty set of integers
SetMax(S) == CHOOSE x \in S : \A y \in S : y <= x

\* the timestamps (milliseconds) of a decoded batch
BatchMillis(ms) == {UnixMilli(ms[i].ts) : i \in 1..Len(ms)}

\* AdvanceOver without the comparison: the cursor is assigned every timestamp
AdvanceOverAssign(cursor, m) == UnixMilli(m.ts)

\* AdvanceOver with the comparison turned around
AdvanceOverOlder(cursor, m) ==
    IF UnixMilli(m.ts) < cursor THEN UnixMilli(m.ts) ELSE cursor

\* AdvanceOver for an exclusive cursor: one past the newest timestamp seen
AdvanceOverExclusive(cursor, m) ==
    IF UnixMilli(m.ts) >= cursor THEN UnixMilli(m.ts) + 1 ELSE cursor

\* value of the cursor after the range loop has handled one mutation
AdvanceOver(cursor, m) ==
    IF UnixMilli(m.ts) > cursor THEN UnixMilli(m.ts) ELSE cursor

(* ------------------------------- Init ---------------------------------- *)
Init ==
    /\ mainPc = "start"
    /\ daemonClient = FALSE
    /\ daemonClientMu = "free"
    /\ wsClients = {}
    /\ wsClientsMu = MuFree
    /\ wsBroadcast = <<>>
    /\ pollerPc = "off"
    /\ lastPollTime = 0
    /\ since = 0
    /\ resp = NoResp
    /\ mutations = <<>>
    /\ idx = 1
    /\ failedSince = -1
    /\ nextId = 0
    /\ hubPc = "off"
    /\ hubMsg = <<>>
    /\ hubTodo = {}
    /\ connPc = [c \in Conns |-> "none"]
    /\ connClosed = {}
    /\ pushed = <<>>
    /\ dequeued = <<>>
    /\ written = [c \in Conns |-> <<>>]
    /\ offered = [c \in Conns |-> 0]
    /\ failedAt = [c \in Conns |-> 0]
    /\ firstEvent = [c \in Conns |-> 0]
    /\ reqPc = [h \in Reqs |-> "idle"]
    /\ reqKind = [h \in Reqs |-> "none"]
    /\ reqOutcome = [h \in Reqs |-> "none"]
    /\ reqStatus = [h \in Reqs |-> "none"]
    /\ pagePc = "loading"
    /\ sockState = [s \in Sockets |-> "none"]
    /\ ws = 0
    /\ wsConnected = FALSE
    /\ timers = <<>>
    /\ lastEvent = "none"
    /\ triggered = {}
    /\ pending = {}
    /\ views = [l \in Loads |-> 0]
    /\ upstream = 0

(* ------------------------------- main ---------------------------------- *)
\* connectToDaemon succeeds: daemonClient is set, both goroutines are
\* started and the HTTP server listens
ConnectOk ==
    /\ mainPc = "start"
    /\ mainPc' = "serving"
    /\ daemonClient' = TRUE
    /\ pollerPc' = "wait"
    /\ hubPc' = "recv"
    /\ UNCHANGED <<daemonClientMu, wsClients, wsClientsMu, wsBroadcast,
                   lastPollTime, since, resp, mutations, idx, failedSince, nextId, hubMsg,
                   hubTodo, connPc, connClosed, pushed, dequeued, written,
                   offered, failedAt, firstEvent>>
    /\ UNCHANGED <<reqVars, clientVars>>

\* ConnectFail that reports the error and carries on without a daemon
ConnectFailContinue ==
    /\ mainPc = "start"
    /\ mainPc' = "serving"
    /\ pollerPc' = "wait"
    /\ hubPc' = "recv"
    /\ UNCHANGED <<daemonClient, daemonClientMu, wsClients, wsClientsMu,
                   wsBroadcast, lastPollTime, since, resp, mutations, idx,
                   failedSince, nextId, hubMsg, hubTodo, connPc, connClosed,
                   pushed, dequeued, written, offered, failedAt, firstEvent>>
    /\ UNCHANGED <<reqVars, clientVars>>

\* connectToDaemon fails (no daemon, or not healthy): os.Exit(1)
ConnectFail ==
    /\ mainPc = "start"
    /\ mainPc' = "exited"
    /\ UNCHANGED <<daemonClient, daemonClientMu, wsClients, wsClientsMu,
                   wsBroadcast, pollerVars, hubVars, connVars>>
    /\ UNCHANGED <<reqVars, clientVars>>

(* ------------------------------ poller --------------------------------- *)
\* PollTick for a poller that starts every tick in a goroutine of its own:
\* a tick starts whatever the previous one is doing
PollTickOverlap ==
    /\ pollerPc \in {"wait", "call", "resp", "send", "advance"}
    /\ pollerPc' = "lock"
    /\ UNCHANGED <<mainVars, daemonClientMu, wsClients, wsClientsMu,
                   wsBroadcast, lastPollTime, since, resp, mutations, idx,
                   failedSince, nextId, pushed, hubVars, connVars>>
    /\ UNCHANGED <<reqVars, clientVars>>

\* the ticker fires: the loop body starts
PollTick ==
    /\ pollerPc = "wait"
    /\ pollerPc' = "lock"
    /\ UNCHANGED <<mainVars, daemonClientMu, wsClients, wsClientsMu,
                   wsBroadcast, lastPollTime, since, resp, mutations, idx,
                   failedSince, nextId, pushed, hubVars, connVars>>
    /\ UNCHANGED <<reqVars, clientVars>>

\* daemonClientMu.Lock(), the nil check on daemonClient, and the call
\* GetMutations(Since: lastPollTime) is made
PollLock ==
    /\ pollerPc = "lock"
    /\ daemonClientMu = "free"
    /\ IF daemonClient
         THEN /\ daemonClientMu' = "poller"
              /\ since' = lastPollTime
              /\ pollerPc' = "call"
         ELSE /\ daemonClientMu' = "free"
              /\ since' = since
              /\ pollerPc' = "wait"
    /\ UNCHANGED <<mainVars, wsClients, wsClientsMu, wsBroadcast,
                   lastPollTime, resp, mutations, idx, failedSince, nextId,
                   pushed, hubVars, connVars>>
    /\ UNCHANGED <<reqVars, clientVars>>

\* PollReturn for a poller that unlocks with "defer" and so keeps
\* daemonClientMu while it pushes the batch
PollReturnHoldLock(r, n) ==
    /\ pollerPc = "call"
    /\ daemonClientMu = "poller"
    /\ resp' = r
    /\ nextId' = nextId + n
    /\ pollerPc' = "resp"
    /\ UNCHANGED <<mainVars, daemonClientMu, wsClients, wsClientsMu,
                   wsBroadcast, lastPollTime, since, mutations, idx,
                   failedSince, pushed, hubVars, connVars>>
    /\ UNCHANGED <<reqVars, clientVars>>

\* GetMutations returns r, with n new events; daemonClientMu.Unlock()
PollReturn(r, n) ==
    /\ pollerPc = "call"
    /\ daemonClientMu = "poller"
    /\ resp' = r
    /\ nextId' = nextId + n
    /\ daemonClientMu' = "free"
    /\ pollerPc' = "resp"
    /\ UNCHANGED <<mainVars, wsClients, wsClientsMu, wsBroadcast,
                   lastPollTime, since, mutations, idx, failedSince, pushed,
                   hubVars, connVars>>
    /\ UNCHANGED <<reqVars, clientVars>>

\* the call fails: err != nil
PollCallErr == PollReturn([err |-> TRUE, ok |-> FALSE, data |-> <<>>], 0)

\* the call succeeds with a body json.Unmarshal cannot decode
PollCallMalformed == PollReturn([err |-> FALSE, ok |-> FALSE, data |-> <<>>], 0)

\* the call succeeds with a batch of events
PollCallOk ==
    \E b \in Batches : PollReturn([err |-> FALSE, ok |-> TRUE, data |-> b], Len(b))

\* the loop body ends ("continue", or the range loop is over): its locals
\* go out of scope and the poller waits for the next tick
EndTick(failed) ==
    /\ pollerPc' = "wait"
    /\ failedSince' = IF failed THEN since ELSE -1
    /\ since' = 0
    /\ resp' = NoResp
    /\ mutations' = <<>>
    /\ idx' = 1

\* PollDecode with "return" in place of "continue": a failed tick ends the
\* goroutine
PollDecodeReturn ==
    /\ pollerPc = "resp"
    /\ IF resp.err \/ ~resp.ok
         THEN /\ pollerPc' = "off"
              /\ UNCHANGED <<since, resp, mutations, idx, failedSince>>
         ELSE IF Len(resp.data) = 0
                THEN EndTick(FALSE)
                ELSE /\ mutations' = Unmarshal(resp.data)
                     /\ idx' = 1
                     /\ pollerPc' = "send"
                     /\ UNCHANGED <<since, resp, failedSince>>
    /\ UNCHANGED <<mainVars, daemonClientMu, wsClients, wsClientsMu,
                   wsBroadcast, lastPollTime, nextId, pushed, hubVars,
                   connVars>>
    /\ UNCHANGED <<reqVars, clientVars>>

\* PollDecode that advances the cursor over the whole batch before the
\* range loop pushes anything
PollDecodeAdvanceFirst ==
    /\ pollerPc = "resp"
    /\ IF resp.err \/ ~resp.ok
         THEN EndTick(TRUE) /\ UNCHANGED lastPollTime
         ELSE IF Len(resp.data) = 0
                THEN EndTick(FALSE) /\ UNCHANGED lastPollTime
                ELSE /\ mutations' = Unmarshal(resp.data)
                     /\ idx' = 1
                     /\ pollerPc' = "send"
                     /\ lastPollTime' =
                            SetMax({lastPollTime} \cup BatchMillis(Unmarshal(resp.data)))
                     /\ UNCHANGED <<since, resp, failedSince>>
    /\ UNCHANGED <<mainVars, daemonClientMu, wsClients, wsClientsMu,
                   wsBroadcast, nextId, pushed, hubVars, connVars>>
    /\ UNCHANGED <<reqVars, clientVars>>

\* "if err != nil { continue }", json.Unmarshal, "if err != nil { continue }",
\* then the range loop over mutations starts
PollDecode ==
    /\ pollerPc = "resp"
    /\ IF resp.err \/ ~resp.ok
         THEN EndTick(TRUE)
         ELSE IF Len(resp.data) = 0
                THEN EndTick(FALSE)
                ELSE /\ mutations' = Unmarshal(resp.data)
                     /\ idx' = 1
                     /\ pollerPc' = "send"
                     /\ UNCHANGED <<since, resp, failedSince>>
    /\ UNCHANGED <<mainVars, daemonClientMu, wsClients, wsClientsMu,
                   wsBroadcast, lastPollTime, nextId, pushed, hubVars,
                   connVars>>
    /\ UNCHANGED <<reqVars, clientVars>>

\* PollSend as a non-blocking send ("select" with a "default" branch): the
\* payload is dropped when the channel is full
PollSendDrop ==
    /\ pollerPc = "send"
    /\ wsBroadcast' = IF Len(wsBroadcast) < QueueCap
                        THEN Append(wsBroadcast, Marshal(mutations[idx]))
                        ELSE wsBroadcast
    /\ pushed' = Append(pushed, Marshal(mutations[idx]))
    /\ pollerPc' = "advance"
    /\ UNCHANGED <<mainVars, daemonClientMu, wsClients, wsClientsMu,
                   lastPollTime, since, resp, mutations, idx, failedSince,
                   nextId, hubVars, connVars>>
    /\ UNCHANGED <<reqVars, clientVars>>

\* PollSend over the batch from its last event to its first
PollSendReversed ==
    /\ pollerPc = "send"
    /\ Len(wsBroadcast) < QueueCap
    /\ wsBroadcast' = Append(wsBroadcast, Marshal(mutations[Len(mutations) - idx + 1]))
    /\ pushed' = Append(pushed, Marshal(mutations[Len(mutations) - idx + 1]))
    /\ pollerPc' = "advance"
    /\ UNCHANGED <<mainVars, daemonClientMu, wsClients, wsClientsMu,
                   lastPollTime, since, resp, mutations, idx, failedSince,
                   nextId, hubVars, connVars>>
    /\ UNCHANGED <<reqVars, clientVars>>

\* PollSend that skips an event whose timestamp is not above the cursor
PollSendDedup ==
    /\ pollerPc = "send"
    /\ IF UnixMilli(mutations[idx].ts) <= lastPollTime
         THEN UNCHANGED <<wsBroadcast, pushed>>
         ELSE /\ Len(wsBroadcast) < QueueCap
              /\ wsBroadcast' = Append(wsBroadcast, Marshal(mutations[idx]))
              /\ pushed' = Append(pushed, Marshal(mutations[idx]))
    /\ pollerPc' = "advance"
    /\ UNCHANGED <<mainVars, daemonClientMu, wsClients, wsClientsMu,
                   lastPollTime, since, resp, mutations, idx, failedSince,
                   nextId, hubVars, connVars>>
    /\ UNCHANGED <<reqVars, clientVars>>

\* PollSend onto a queue that grows without limit
PollSendUnbounded ==
    /\ pollerPc = "send"
    /\ wsBroadcast' = Append(wsBroadcast, Marshal(mutations[idx]))
    /\ pushed' = Append(pushed, Marshal(mutations[idx]))
    /\ pollerPc' = "advance"
    /\ UNCHANGED <<mainVars, daemonClientMu, wsClients, wsClientsMu,
                   lastPollTime, since, resp, mutations, idx, failedSince,
                   nextId, hubVars, connVars>>
    /\ UNCHANGED <<reqVars, clientVars>>

\* "wsBroadcast <- data": the send blocks while the channel is full
PollSend ==
    /\ pollerPc = "send"
    /\ Len(wsBroadcast) < QueueCap
    /\ wsBroadcast' = Append(wsBroadcast, Marshal(mutations[idx]))
    /\ pushed' = Append(pushed, Marshal(mutations[idx]))
    /\ pollerPc' = "advance"
    /\ UNCHANGED <<mainVars, daemonClientMu, wsClients, wsClientsMu,
                   lastPollTime, since, resp, mutations, idx, failedSince,
                   nextId, hubVars, connVars>>
    /\ UNCHANGED <<reqVars, clientVars>>

\* "if ts > lastPollTime { lastPollTime = ts }", then the next iteration
PollAdvance ==
    /\ pollerPc = "advance"
    /\ lastPollTime' = AdvanceOver(lastPollTime, mutations[idx])
    /\ IF idx < Len(mutations)
         THEN /\ idx' = idx + 1
              /\ pollerPc' = "send"
              /\ UNCHANGED <<since, resp, mutations, failedSince>>
         ELSE EndTick(FALSE)
    /\ UNCHANGED <<mainVars, daemonClientMu, wsClients, wsClientsMu,
                   wsBroadcast, nextId, pushed, hubVars, connVars>>
    /\ UNCHANGED <<reqVars, clientVars>>

(* ---------------------------- broadcaster ------------------------------ *)
\* "for message := range wsBroadcast": receive the oldest payload
HubRecv ==
    /\ hubPc = "recv"
    /\ wsBroadcast /= <<>>
    /\ hubMsg' = Head(wsBroadcast)
    /\ wsBroadcast' = Tail(wsBroadcast)
    /\ dequeued' = Append(dequeued, Head(wsBroadcast))
    /\ hubPc' = "lock"
    /\ UNCHANGED <<mainVars, wsClients, wsClientsMu, pollerVars, hubTodo,
                   written, offered, failedAt, connVars>>
    /\ UNCHANGED <<reqVars, clientVars>>

\* HubLock for a broadcaster that copies the registry under the lock and
\* writes to the copy after releasing it
HubLockSnapshot ==
    /\ hubPc = "lock"
    /\ wsClientsMu = MuFree
    /\ hubTodo' = wsClients
    /\ hubPc' = "iter"
    /\ UNCHANGED <<mainVars, wsClients, wsClientsMu, wsBroadcast, pollerVars,
                   hubMsg, dequeued, written, offered, failedAt, connVars>>
    /\ UNCHANGED <<reqVars, clientVars>>

\* wsClientsMu.Lock(); the range over wsClients starts
HubLock ==
    /\ hubPc = "lock"
    /\ wsClientsMu = MuFree
    /\ wsClientsMu' = MuHub
    /\ hubTodo' = wsClients
    /\ hubPc' = "iter"
    /\ UNCHANGED <<mainVars, wsClients, wsBroadcast, pollerVars, hubMsg,
                   dequeued, written, offered, failedAt, connVars>>
    /\ UNCHANGED <<reqVars, clientVars>>

\* TodoAfter with a "break" after the first write
TodoAfterFirstOnly(c, failed) == {}

\* TodoAfter with a "break" in the error branch
TodoAfterAbortOnFail(c, failed) == IF failed THEN {} ELSE hubTodo \ {c}

\* connections the range loop still visits after it has visited c
TodoAfter(c, failed) == hubTodo \ {c}

\* RegistryAfterFail without the delete
RegistryAfterFailKeep(c) == wsClients

\* the registry after the write to c failed: delete(wsClients, client)
RegistryAfterFail(c) == wsClients \ {c}

\* client.WriteMessage(TextMessage, message) returns nil
HubWriteOk(c) ==
    /\ hubPc = "iter"
    /\ c \in hubTodo
    /\ written' = [written EXCEPT ![c] = Append(@, hubMsg)]
    /\ offered' = [offered EXCEPT ![c] = Len(dequeued)]
    /\ hubTodo' = TodoAfter(c, FALSE)
    /\ UNCHANGED <<mainVars, wsClients, wsClientsMu, wsBroadcast, pollerVars,
                   hubPc, hubMsg, dequeued, failedAt, connVars>>
    /\ UNCHANGED <<reqVars, clientVars>>

\* HubWriteFail that leaves the loop with "return" and so never unlocks
HubWriteFailNoUnlock(c) ==
    /\ hubPc = "iter"
    /\ c \in hubTodo
    /\ connClosed' = connClosed \cup {c}
    /\ wsClients' = RegistryAfterFail(c)
    /\ offered' = [offered EXCEPT ![c] = Len(dequeued)]
    /\ failedAt' = [failedAt EXCEPT ![c] = Len(dequeued)]
    /\ hubTodo' = {}
    /\ hubPc' = "recv"
    /\ UNCHANGED <<mainVars, wsClientsMu, wsBroadcast, pollerVars,
                   hubMsg, dequeued, written, connPc, firstEvent>>
    /\ UNCHANGED <<reqVars, clientVars>>

\* HubWriteFail that also rewinds the poller's cursor, to have the event
\* fetched again
HubWriteFailRewind(c) ==
    /\ hubPc = "iter"
    /\ c \in hubTodo
    /\ connClosed' = connClosed \cup {c}
    /\ wsClients' = RegistryAfterFail(c)
    /\ offered' = [offered EXCEPT ![c] = Len(dequeued)]
    /\ failedAt' = [failedAt EXCEPT ![c] = Len(dequeued)]
    /\ hubTodo' = TodoAfter(c, TRUE)
    /\ lastPollTime' = 0
    /\ UNCHANGED <<mainVars, wsClientsMu, wsBroadcast, pollerPc, since, resp,
                   mutations, idx, failedSince, nextId, daemonClientMu, pushed,
                   hubPc, hubMsg, dequeued, written, connPc, firstEvent>>
    /\ UNCHANGED <<reqVars, clientVars>>

\* HubWriteFail without client.Close(): the connection is only deleted
HubWriteFailNoClose(c) ==
    /\ hubPc = "iter"
    /\ c \in hubTodo
    /\ wsClients' = RegistryAfterFail(c)
    /\ offered' = [offered EXCEPT ![c] = Len(dequeued)]
    /\ failedAt' = [failedAt EXCEPT ![c] = Len(dequeued)]
    /\ hubTodo' = TodoAfter(c, TRUE)
    /\ UNCHANGED <<mainVars, wsClientsMu, wsBroadcast, pollerVars, hubPc,
                   hubMsg, dequeued, written, connVars>>
    /\ UNCHANGED <<reqVars, clientVars>>

\* client.WriteMessage returns an error: client.Close(); delete(wsClients, client)
HubWriteFail(c) ==
    /\ hubPc = "iter"
    /\ c \in hubTodo
    /\ connClosed' = connClosed \cup {c}
    /\ wsClients' = RegistryAfterFail(c)
    /\ offered' = [offered EXCEPT ![c] = Len(dequeued)]
    /\ failedAt' = [failedAt EXCEPT ![c] = Len(dequeued)]
    /\ hubTodo' = TodoAfter(c, TRUE)
    /\ UNCHANGED <<mainVars, wsClientsMu, wsBroadcast, pollerVars, hubPc,
                   hubMsg, dequeued, written, connPc, firstEvent>>
    /\ UNCHANGED <<reqVars, clientVars>>

\* HubUnlock that does not wait for the end of the range
HubUnlockEarly ==
    /\ hubPc = "iter"
    /\ wsClientsMu' = MuFree
    /\ hubPc' = "recv"
    /\ UNCHANGED <<mainVars, wsClients, wsBroadcast, pollerVars, hubMsg,
                   hubTodo, dequeued, written, offered, failedAt, connVars>>
    /\ UNCHANGED <<reqVars, clientVars>>

\* the range is over: wsClientsMu.Unlock(), back to the receive
HubUnlock ==
    /\ hubPc = "iter"
    /\ hubTodo = {}
    /\ wsClientsMu' = MuFree
    /\ hubPc' = "recv"
    /\ UNCHANGED <<mainVars, wsClients, wsBroadcast, pollerVars, hubMsg,
                   hubTodo, dequeued, written, offered, failedAt, connVars>>
    /\ UNCHANGED <<reqVars, clientVars>>

(* ------------------------ connection handler --------------------------- *)
\* connections are numbered in the order their upgrades succeed
NextConn(c) == \A d \in Conns : d < c => connPc[d] /= "none"

\* upgrader.Upgrade succeeds for a new request on /ws
Upgrade(c) ==
    /\ mainPc = "serving"
    /\ connPc[c] = "none"
    /\ NextConn(c)
    /\ connPc' = [connPc EXCEPT ![c] = "upgraded"]
    /\ UNCHANGED <<mainVars, wsClients, wsClientsMu, wsBroadcast, pollerVars,
                   hubVars, connClosed, firstEvent>>
    /\ UNCHANGED <<reqVars, clientVars>>

\* upgrader.Upgrade fails for a new request: the handler returns and no
\* connection exists
UpgradeFail ==
    /\ mainPc = "serving"
    /\ UNCHANGED vars

\* RegLock that does not wait for the lock to be free
RegLockNoWait(c) ==
    /\ connPc[c] = "upgraded"
    /\ wsClientsMu' = MuConn(c)
    /\ connPc' = [connPc EXCEPT ![c] = "registering"]
    /\ UNCHANGED <<mainVars, wsClients, wsBroadcast, pollerVars, hubVars,
                   connClosed, firstEvent>>
    /\ UNCHANGED <<reqVars, clientVars>>

\* wsClientsMu.Lock() before the registration
RegLock(c) ==
    /\ connPc[c] = "upgraded"
    /\ wsClientsMu = MuFree
    /\ wsClientsMu' = MuConn(c)
    /\ connPc' = [connPc EXCEPT ![c] = "registering"]
    /\ UNCHANGED <<mainVars, wsClients, wsBroadcast, pollerVars, hubVars,
                   connClosed, firstEvent>>
    /\ UNCHANGED <<reqVars, clientVars>>

\* the registry after "wsClients[conn] = true": a map assignment
RegistryAdd(c) == wsClients \cup {c}

\* Register for a broadcaster that keeps the events it has dispatched and
\* hands them to a connection when it registers
RegisterReplay(c) ==
    /\ connPc[c] = "registering"
    /\ wsClientsMu = MuConn(c)
    /\ wsClients' = RegistryAdd(c)
    /\ wsClientsMu' = MuFree
    /\ connPc' = [connPc EXCEPT ![c] = "open"]
    /\ firstEvent' = [firstEvent EXCEPT ![c] =
                         IF hubPc = "lock" THEN Len(dequeued) ELSE Len(dequeued) + 1]
    /\ written' = [written EXCEPT ![c] =
                      IF hubPc = "lock" THEN SubSeq(dequeued, 1, Len(dequeued) - 1)
                                        ELSE dequeued]
    /\ UNCHANGED <<mainVars, wsBroadcast, pollerVars, hubPc, hubMsg, hubTodo,
                   dequeued, offered, failedAt, connClosed>>
    /\ UNCHANGED <<reqVars, clientVars>>

\* Register that also writes the message the broadcaster holds and has not
\* yet fanned out, so that the new connection does not miss it
RegisterCatchUp(c) ==
    /\ connPc[c] = "registering"
    /\ wsClientsMu = MuConn(c)
    /\ wsClients' = RegistryAdd(c)
    /\ wsClientsMu' = MuFree
    /\ connPc' = [connPc EXCEPT ![c] = "open"]
    /\ firstEvent' = [firstEvent EXCEPT ![c] =
                         IF hubPc = "lock" THEN Len(dequeued) ELSE Len(dequeued) + 1]
    /\ written' = [written EXCEPT ![c] =
                      IF hubPc = "lock" THEN Append(@, hubMsg) ELSE @]
    /\ UNCHANGED <<mainVars, wsBroadcast, pollerVars, hubPc, hubMsg, hubTodo,
                   dequeued, offered, failedAt, connClosed>>
    /\ UNCHANGED <<reqVars, clientVars>>

\* wsClients[conn] = true; wsClientsMu.Unlock(); the read loop starts
Register(c) ==
    /\ connPc[c] = "registering"
    /\ wsClientsMu = MuConn(c)
    /\ wsClients' = RegistryAdd(c)
    /\ wsClientsMu' = MuFree
    /\ connPc' = [connPc EXCEPT ![c] = "open"]
    /\ firstEvent' = [firstEvent EXCEPT ![c] =
                         IF hubPc = "lock" THEN Len(dequeued) ELSE Len(dequeued) + 1]
    /\ UNCHANGED <<mainVars, wsBroadcast, pollerVars, hubVars, connClosed>>
    /\ UNCHANGED <<reqVars, clientVars>>

\* conn.ReadMessage() returns a message: it is dropped, the loop goes on
ReadOk(c) ==
    /\ connPc[c] = "open"
    /\ c \notin connClosed
    /\ UNCHANGED vars

\* ReadErr in a handler whose cleanup is not deferred: the handler returns
ReadErrNoCleanup(c) ==
    /\ connPc[c] = "open"
    /\ connPc' = [connPc EXCEPT ![c] = "closed"]
    /\ UNCHANGED <<mainVars, wsClients, wsClientsMu, wsBroadcast, pollerVars,
                   hubVars, connClosed, firstEvent>>
    /\ UNCHANGED <<reqVars, clientVars>>

\* conn.ReadMessage() returns an error (peer closed, transport error, or the
\* broadcaster closed the connection): break, the deferred function runs
ReadErr(c) ==
    /\ connPc[c] = "open"
    /\ connPc' = [connPc EXCEPT ![c] = "closing"]
    /\ UNCHANGED <<mainVars, wsClients, wsClientsMu, wsBroadcast, pollerVars,
                   hubVars, connClosed, firstEvent>>
    /\ UNCHANGED <<reqVars, clientVars>>

\* deferred: wsClientsMu.Lock()
DeregLock(c) ==
    /\ connPc[c] = "closing"
    /\ wsClientsMu = MuFree
    /\ wsClientsMu' = MuConn(c)
    /\ connPc' = [connPc EXCEPT ![c] = "deregistering"]
    /\ UNCHANGED <<mainVars, wsClients, wsBroadcast, pollerVars, hubVars,
                   connClosed, firstEvent>>
    /\ UNCHANGED <<reqVars, clientVars>>

\* RegistryDel for a registry kept as a list: an absent connection takes
\* another entry with it
RegistryDelOther(c) ==
    IF c \in wsClients \/ wsClients = {}
      THEN wsClients \ {c}
      ELSE wsClients \ {CHOOSE d \in wsClients : TRUE}

\* the registry after "delete(wsClients, conn)": a no-op for an absent key
RegistryDel(c) == wsClients \ {c}

\* deferred: delete(wsClients, conn); wsClientsMu.Unlock(); conn.Close()
Deregister(c) ==
    /\ connPc[c] = "deregistering"
    /\ wsClientsMu = MuConn(c)
    /\ wsClients' = RegistryDel(c)
    /\ wsClientsMu' = MuFree
    /\ connClosed' = connClosed \cup {c}
    /\ connPc' = [connPc EXCEPT ![c] = "closed"]
    /\ UNCHANGED <<mainVars, wsBroadcast, pollerVars, hubVars, firstEvent>>
    /\ UNCHANGED <<reqVars, clientVars>>

(* ------------------------------- Next ---------------------------------- *)
Next ==
    \/ ConnectOk
    \/ ConnectFail
    \/ PollTick
    \/ PollLock
    \/ PollCallErr
    \/ PollCallMalformed
    \/ PollCallOk
    \/ PollDecode
    \/ PollSend
    \/ PollAdvance
    \/ HubRecv
    \/ HubLock
    \/ \E c \in Conns : HubWriteOk(c)
    \/ \E c \in Conns : HubWriteFail(c)
    \/ HubUnlock
    \/ \E c \in Conns : Upgrade(c)
    \/ UpgradeFail
    \/ \E c \in Conns : RegLock(c)
    \/ \E c \in Conns : Register(c)
    \/ \E c \in Conns : ReadOk(c)
    \/ \E c \in Conns : ReadErr(c)
    \/ \E c \in Conns : DeregLock(c)
    \/ \E c \in Conns : Deregister(c)

Spec == Init /\ [][Next]_vars

\* The broadcaster goroutine is scheduled, every WriteMessage returns, and a
\* goroutine inside a critical section of wsClientsMu leaves it; sync.Mutex
\* hands the lock to a goroutine that keeps waiting for it (starvation mode).
FairSpec ==
    /\ Spec
    /\ WF_vars(HubRecv)
    /\ SF_vars(HubLock)
    /\ WF_vars(\E c \in Conns : HubWriteOk(c) \/ HubWriteFail(c))
    /\ WF_vars(HubUnlock)
    /\ \A c \in Conns : WF_vars(Register(c)) /\ WF_vars(Deregister(c))

\* FairSpec, and the handler goroutines are scheduled too: ReadMessage on a
\* connection that has been closed returns its error, and a handler that
\* waits for wsClientsMu gets it
CleanupFairSpec ==
    /\ FairSpec
    /\ \A c \in Conns : WF_vars(c \in connClosed /\ ReadErr(c))
    /\ \A c \in Conns : SF_vars(DeregLock(c))

(* ------------------------- HTTP read handlers -------------------------- *)
\* everything a read handler leaves alone besides daemonClientMu
reqFrame == <<mainVars, wsClients, wsClientsMu, wsBroadcast, pollerPc,
              lastPollTime, since, resp, mutations, idx, failedSince, nextId,
              pushed, hubVars, connVars, clientVars>>

\* the statuses the handlers pass to http.Error
ErrorStatuses == {"StatusBadRequest", "StatusNotFound", "StatusInternalServerError"}

\* the status a handler answers when its RPC call returns an error:
\* handleAPIIssueDetail says "Issue not found", the others "RPC error"
RpcErrorStatus(k) ==
    IF k = "detail" THEN "StatusNotFound" ELSE "StatusInternalServerError"

\* the handler returns: it has answered with status st
Answer(h, outcome, st) ==
    /\ reqPc' = [reqPc EXCEPT ![h] = "done"]
    /\ reqOutcome' = [reqOutcome EXCEPT ![h] = outcome]
    /\ reqStatus' = [reqStatus EXCEPT ![h] = st]

\* a new request takes the first slot that has no request in progress
NextReq(h) ==
    /\ reqPc[h] \in {"idle", "done"}
    /\ \A g \in Reqs : g < h => reqPc[g] \in {"lock", "call"}

\* a request for handler k arrives; it is about to call daemonClientMu.Lock()
ReqStart(h, k) ==
    /\ mainPc = "serving"
    /\ NextReq(h)
    /\ reqPc' = [reqPc EXCEPT ![h] = "lock"]
    /\ reqKind' = [reqKind EXCEPT ![h] = k]
    /\ reqOutcome' = [reqOutcome EXCEPT ![h] = "none"]
    /\ reqStatus' = [reqStatus EXCEPT ![h] = "none"]
    /\ UNCHANGED <<daemonClientMu, reqFrame>>

\* handleAPIIssueDetail with an empty issue id: 400 before the lock is taken
ReqBadId(h) ==
    /\ mainPc = "serving"
    /\ NextReq(h)
    /\ reqKind' = [reqKind EXCEPT ![h] = "detail"]
    /\ Answer(h, "badid", "StatusBadRequest")
    /\ UNCHANGED <<daemonClientMu, reqFrame>>

\* ReqLock that does not wait for daemonClientMu
ReqLockNoWait(h) ==
    /\ reqPc[h] = "lock"
    /\ daemonClientMu' = "http"
    /\ reqPc' = [reqPc EXCEPT ![h] = "call"]
    /\ UNCHANGED <<reqOutcome, reqStatus, reqKind, reqFrame>>

\* daemonClientMu.Lock(); defer Unlock(); the nil check; the RPC call is made
ReqLock(h) ==
    /\ reqPc[h] = "lock"
    /\ daemonClientMu = "free"
    /\ IF daemonClient
         THEN /\ daemonClientMu' = "http"
              /\ reqPc' = [reqPc EXCEPT ![h] = "call"]
              /\ UNCHANGED <<reqOutcome, reqStatus>>
         ELSE /\ daemonClientMu' = "free"
              /\ Answer(h, "nil", "StatusInternalServerError")
    /\ UNCHANGED <<reqKind, reqFrame>>

\* ReqCallErr in a handler that unlocks at its end instead of with
\* "defer": the early return keeps the lock
ReqCallErrLeak(h) ==
    /\ reqPc[h] = "call"
    /\ Answer(h, "err", RpcErrorStatus(reqKind[h]))
    /\ UNCHANGED <<daemonClientMu, reqKind, reqFrame>>

\* the RPC call returns an error: http.Error, return, deferred Unlock()
ReqCallErr(h) ==
    /\ reqPc[h] = "call"
    /\ Answer(h, "err", RpcErrorStatus(reqKind[h]))
    /\ daemonClientMu' = "free"
    /\ UNCHANGED <<reqKind, reqFrame>>

\* the RPC call returns data json.Unmarshal cannot decode
ReqCallMalformed(h) ==
    /\ reqPc[h] = "call"
    /\ Answer(h, "malformed", "StatusInternalServerError")
    /\ daemonClientMu' = "free"
    /\ UNCHANGED <<reqKind, reqFrame>>

\* the RPC call returns data that decodes: the handler encodes the answer
ReqCallOk(h) ==
    /\ reqPc[h] = "call"
    /\ Answer(h, "ok", "StatusOK")
    /\ daemonClientMu' = "free"
    /\ UNCHANGED <<reqKind, reqFrame>>

ReqNext ==
    \/ \E h \in Reqs : \E k \in Handlers : ReqStart(h, k)
    \/ \E h \in Reqs : ReqBadId(h)
    \/ \E h \in Reqs : ReqLock(h)
    \/ \E h \in Reqs : ReqCallErr(h)
    \/ \E h \in Reqs : ReqCallMalformed(h)
    \/ \E h \in Reqs : ReqCallOk(h)

\* the poller, the broadcaster and the read handlers, with no WebSocket
\* client connected
ApiNext ==
    \/ ConnectOk
    \/ ConnectFail
    \/ PollTick
    \/ PollLock
    \/ PollCallErr
    \/ PollCallMalformed
    \/ PollCallOk
    \/ PollDecode
    \/ PollSend
    \/ PollAdvance
    \/ HubRecv
    \/ HubLock
    \/ HubUnlock
    \/ ReqNext

ApiSpec == Init /\ [][ApiNext]_vars

\* the whole server, in runs that serve WebSocket clients or HTTP read
\* requests: the two kinds of client have no variable and no lock in
\* common, each meets only the poller and the broadcaster
ServerNext ==
    \/ (\A h \in Reqs : reqPc[h] = "idle") /\ Next
    \/ (\A c \in Conns : connPc[c] = "none") /\ ApiNext

ServerSpec == Init /\ [][ServerNext]_vars

\* ServerSpec with the scheduling of FairSpec
ServerFairSpec ==
    /\ ServerSpec
    /\ WF_vars(HubRecv)
    /\ SF_vars(HubLock)
    /\ WF_vars(\E c \in Conns : HubWriteOk(c) \/ HubWriteFail(c))
    /\ WF_vars(HubUnlock)
    /\ \A c \in Conns : WF_vars(Register(c)) /\ WF_vars(Deregister(c))

(* ------------------------- the page (app.js) --------------------------- *)
\* what a text message on /ws can carry: the JSON of one mutation event, or
\* nothing at all (json.Marshal failed and the poller dropped its error)
Payloads == {Marshal([id |-> 1, ts |-> t]) : t \in Timestamps} \cup {<<>>}

\* JSON.parse(event.data): throws on text that is not JSON
JSONParse(data) ==
    IF Len(data) = 2
      THEN [ok |-> TRUE, id |-> data[1], ts |-> data[2]]
      ELSE [ok |-> FALSE, id |-> 0, ts |-> 0]

\* the loads handleMutation and refreshAllData call
FullRefresh == {"loadStats", "loadReadyQueue", "loadEpics", "loadAllIssues"}

\* the loads the fallback interval calls
FallbackRefresh == {"loadStats", "loadReadyQueue"}

\* a WebSocket object is live until its close event has fired
Live(s) == sockState[s] \in {"connecting", "open", "errored"}

\* a callback of the page ran and called the loads in L
Ran(event, L) ==
    /\ lastEvent' = event
    /\ triggered' = L
    /\ pending' = pending \cup L

\* the slots a new WebSocket object can take: one that holds no live
\* object and is not the object ws still refers to
FreeSlots == {s \in Sockets : ~Live(s) /\ s /= ws}

\* connectWebSocket(): ws = new WebSocket(wsUrl) with its four callbacks
connectWebSocket ==
    \E s \in FreeSlots :
        /\ \A r \in FreeSlots : s <= r
        /\ sockState' = [sockState EXCEPT ![s] = "connecting"]
        /\ ws' = s

\* DOMContentLoaded: connectWebSocket(), then the four loads
DOMContentLoaded ==
    /\ pagePc = "loading"
    /\ pagePc' = "ready"
    /\ connectWebSocket
    /\ Ran("DOMContentLoaded", FullRefresh)
    /\ UNCHANGED <<serverVars, wsConnected, timers, views, upstream>>

\* ws.onopen
SockOpen(s) ==
    /\ sockState[s] = "connecting"
    /\ sockState' = [sockState EXCEPT ![s] = "open"]
    /\ wsConnected' = TRUE
    /\ Ran("open", {})
    /\ UNCHANGED <<serverVars, pagePc, ws, timers, views, upstream>>

\* SockMessage that applies the event to the views instead of loading
SockMessageApplyDiff(s, data) ==
    /\ sockState[s] = "open"
    /\ JSONParse(data).ok
    /\ views' = [l \in Loads |-> IF views[l] < MaxVersion THEN views[l] + 1 ELSE 0]
    /\ Ran("message", {})
    /\ UNCHANGED <<serverVars, pagePc, sockState, ws, wsConnected, timers,
                   upstream>>

\* ws.onmessage: JSON.parse(event.data), then handleMutation; when the
\* parse throws the callback ends there
SockMessage(s, data) ==
    /\ sockState[s] = "open"
    /\ Ran("message", IF JSONParse(data).ok THEN FullRefresh ELSE {})
    /\ UNCHANGED <<serverVars, pagePc, sockState, ws, wsConnected, timers,
                   views, upstream>>

\* ws.onerror that schedules a reconnect of its own, as ws.onclose does
SockErrorRetry(s) ==
    /\ sockState[s] \in {"connecting", "open"}
    /\ sockState' = [sockState EXCEPT ![s] = "errored"]
    /\ wsConnected' = FALSE
    /\ timers' = Append(timers, ReconnectDelay)
    /\ Ran("error", {})
    /\ UNCHANGED <<serverVars, pagePc, ws, views, upstream>>

\* ws.onerror; the browser fires close on the same object afterwards
SockError(s) ==
    /\ sockState[s] \in {"connecting", "open"}
    /\ sockState' = [sockState EXCEPT ![s] = "errored"]
    /\ wsConnected' = FALSE
    /\ Ran("error", {})
    /\ UNCHANGED <<serverVars, pagePc, ws, timers, views, upstream>>

\* ws.onclose without the setTimeout
SockCloseNoRetry(s) ==
    /\ sockState[s] \in {"open", "errored"}
    /\ sockState' = [sockState EXCEPT ![s] = "closed"]
    /\ wsConnected' = FALSE
    /\ Ran("close", {})
    /\ UNCHANGED <<serverVars, pagePc, ws, timers, views, upstream>>

\* ws.onclose: after an error, or when an open connection ends
SockClose(s) ==
    /\ sockState[s] \in {"open", "errored"}
    /\ sockState' = [sockState EXCEPT ![s] = "closed"]
    /\ wsConnected' = FALSE
    /\ timers' = Append(timers, ReconnectDelay)
    /\ Ran("close", {})
    /\ UNCHANGED <<serverVars, pagePc, ws, views, upstream>>

\* a reconnect timer fires: connectWebSocket()
TimerFire ==
    /\ timers /= <<>>
    /\ timers' = Tail(timers)
    /\ connectWebSocket
    /\ Ran("timer", {})
    /\ UNCHANGED <<serverVars, pagePc, wsConnected, views, upstream>>

\* FallbackTick without the test of wsConnected
FallbackTickAlways ==
    /\ Ran("interval", FallbackRefresh)
    /\ UNCHANGED <<serverVars, pagePc, sockState, ws, wsConnected, timers,
                   views, upstream>>

\* the fallback interval fires
FallbackTick ==
    /\ Ran("interval", IF ~wsConnected THEN FallbackRefresh ELSE {})
    /\ UNCHANGED <<serverVars, pagePc, sockState, ws, wsConnected, timers,
                   views, upstream>>

\* refreshAllData(): the refresh button
ManualRefresh ==
    /\ pagePc = "ready"
    /\ Ran("refresh", FullRefresh)
    /\ UNCHANGED <<serverVars, pagePc, sockState, ws, wsConnected, timers,
                   views, upstream>>

\* a load's fetch returns: the view shows what the daemon holds now, or
\* stays as it is when the fetch failed
LoadDone(l, ok) ==
    /\ l \in pending
    /\ pending' = pending \ {l}
    /\ views' = IF ok THEN [views EXCEPT ![l] = upstream] ELSE views
    /\ UNCHANGED <<serverVars, pagePc, sockState, ws, wsConnected, timers,
                   lastEvent, triggered, upstream>>

\* the daemon's data changes
UpstreamChange ==
    /\ upstream < MaxVersion
    /\ upstream' = upstream + 1
    /\ UNCHANGED <<serverVars, pagePc, sockState, ws, wsConnected, timers,
                   lastEvent, triggered, pending, views>>

ClientNext ==
    \/ DOMContentLoaded
    \/ \E s \in Sockets : SockOpen(s)
    \/ \E s \in Sockets : \E data \in Payloads : SockMessage(s, data)
    \/ \E s \in Sockets : SockError(s)
    \/ \E s \in Sockets : SockClose(s)
    \/ TimerFire
    \/ FallbackTick
    \/ ManualRefresh
    \/ \E l \in Loads : \E ok \in BOOLEAN : LoadDone(l, ok)
    \/ UpstreamChange

\* the page on its own, whatever the server behind /ws does
ClientSpec == Init /\ [][ClientNext]_vars

\* timers fire, and the browser fires close after error
ClientFairSpec ==
    /\ ClientSpec
    /\ WF_vars(TimerFire)
    /\ \A s \in Sockets : WF_vars(sockState[s] = "errored" /\ SockClose(s))

(* ============================== claims ================================= *)

(* C1. Cursor monotonicity: no step of the program, whatever the poll       *)
(* returned (an error, an undecodable body, an empty batch, repeated or     *)
(* out-of-order timestamps), decreases lastPollTime; this covers every      *)
(* step inside a batch as well as whole batches.                            *)
C1_CursorMonotone == [][lastPollTime' >= lastPollTime]_vars

\* a tick has ended whose last event was older than the cursor
C1_Witness ==
    /\ pollerPc = "wait"
    /\ pushed /= <<>>
    /\ UnixMilli(pushed[Len(pushed)][2]) < lastPollTime

(* C6. Cursor advance value: the step that ends a successful tick leaves    *)
(* the cursor at max(cursor when the tick called the daemon, largest        *)
(* timestamp of the batch); with an empty batch the cursor is unchanged.    *)
C6_CursorAdvanceValue ==
    [][(pollerPc \in {"resp", "advance"} /\ pollerPc' = "wait" /\ failedSince' = -1)
        => /\ pollerPc = "resp"
              => (Len(resp.data) = 0 /\ lastPollTime' = since
                                     /\ lastPollTime' = lastPollTime)
           /\ pollerPc = "advance"
              => lastPollTime' = SetMax({since} \cup BatchMillis(mutations))]_vars

\* a successful two-event tick has moved the cursor
C6_Witness ==
    /\ pollerPc = "wait"
    /\ failedSince = -1
    /\ Len(pushed) = 2
    /\ lastPollTime = SetMax({UnixMilli(pushed[1][2]), UnixMilli(pushed[2][2])})
    /\ lastPollTime > 0

\* the cursor value mutations[1..n] take the cursor to, from the value it
\* had when the tick called the daemon
CursorAfter(n) ==
    SetMax({since} \cup {UnixMilli(mutations[i].ts) : i \in 1..n})

C5_FailedTick ==
    /\ [][(pollerPc = "resp" /\ (resp.err \/ ~resp.ok) /\ pollerPc' /= pollerPc)
            => /\ lastPollTime' = lastPollTime
               /\ lastPollTime = since
               /\ wsBroadcast' = wsBroadcast
               /\ pushed' = pushed
               /\ written' = written
               /\ pollerPc' = "wait"]_vars
    /\ [][(pollerPc = "lock" /\ pollerPc' = "call" /\ failedSince /= -1)
            => since' = failedSince]_vars
    /\ [](pollerPc = "wait" => ENABLED PollTick)

\* the tick after a failed tick has called with the same Since value and is
\* pushing the batch it got
C5_Witness ==
    /\ pollerPc = "send"
    /\ failedSince /= -1
    /\ since = failedSince
    /\ since > 0

\* number of the last event the broadcaster has tried to write to c when it
\* visits every connection of the registry for every event it receives
Done(c) ==
    IF hubPc = "lock" \/ (hubPc = "iter" /\ c \in hubTodo)
      THEN Len(dequeued) - 1
      ELSE Len(dequeued)

\* connection c was written events firstEvent[c] .. Done(c), each once, one
\* message per event, in the order the broadcaster received them
ExactlyOnceInOrder(c) ==
    written[c] = SubSeq(dequeued, firstEvent[c], Done(c))

(* C2. Fan-out completeness: as long as no write has failed, every          *)
(* registered connection has been written every event the broadcaster       *)
(* received since its registration, exactly once, as one message per event, *)
(* in receive order.                                                        *)
C2_FanOutComplete ==
    (\A a \in Conns : failedAt[a] = 0)
        => \A c \in wsClients : ExactlyOnceInOrder(c)

\* two connections, registered before the first event, have both been
\* written the same two events
C2_Witness ==
    /\ \A a \in Conns : failedAt[a] = 0
    /\ Len(dequeued) = 2
    /\ Cardinality(wsClients) >= 2
    /\ \A c \in wsClients : written[c] = dequeued

(* C3. Backpressure: the channel never holds more than its capacity; a      *)
(* poller that wants to send while the channel is full does not move (no    *)
(* drop, no error) in that step; what was pushed is exactly what was        *)
(* received followed by what waits in the channel; and every payload pushed *)
(* is eventually received by the broadcaster.                               *)
C3_Backpressure ==
    /\ [](Len(wsBroadcast) <= QueueCap)
    /\ [](pushed = dequeued \o wsBroadcast)
    /\ [][(pollerPc = "send" /\ Len(wsBroadcast) = QueueCap)
            => (pollerPc' = "send" /\ idx' = idx /\ mutations' = mutations
                /\ pushed' = pushed)]_vars
    /\ \A i \in 1..MaxEvents : (Len(pushed) >= i) ~> (Len(dequeued) >= i)

\* the poller is blocked on a full channel
C3_Witness ==
    /\ pollerPc = "send"
    /\ Len(wsBroadcast) = QueueCap
    /\ ~ENABLED PollSend

(* C4. Isolation of client failure: when the write of event E to a failed,  *)
(* every other connection b that is registered has been written E (if it    *)
(* was registered in time for E and the broadcaster has visited it) and     *)
(* every event received after E, with nothing missing and nothing repeated. *)
C4_Isolation ==
    \A a \in Conns : \A b \in wsClients :
        failedAt[a] > 0 =>
            /\ Len(written[b]) = Done(b) - firstEvent[b] + 1
            /\ \A k \in failedAt[a]..Done(b) :
                   firstEvent[b] <= k => written[b][k - firstEvent[b] + 1] = dequeued[k]

\* the write of the first event failed for a; b has the first and the second
C4_Witness ==
    \E a \in Conns : \E b \in wsClients :
        /\ failedAt[a] = 1
        /\ firstEvent[b] = 1
        /\ Len(dequeued) = 2
        /\ written[b] = dequeued

(* C8 as stated. The broadcaster does not hold wsClientsMu while it writes  *)
(* to a connection: while it is inside the range over wsClients with a      *)
(* write still to do, a handler that wants to register or deregister        *)
(* another connection can take the lock.                                    *)
C8_NoLockDuringWrite ==
    \A c \in Conns :
        (hubPc = "iter" /\ hubTodo /= {} /\ c \notin hubTodo)
            => /\ connPc[c] = "upgraded" => ENABLED RegLock(c)
               /\ connPc[c] = "closing" => ENABLED DeregLock(c)

(* C9. Removal on write failure: once the write of event E to a has failed, *)
(* a is out of the registry and its connection is closed, E was never       *)
(* written to a and nothing is tried on a afterwards, E is on the channel   *)
(* once only, and a connection registered after the dispatch of E and       *)
(* before the next receive is written the next event.                       *)
C9_RemovedOnFailure ==
    \A a \in Conns :
        failedAt[a] > 0 =>
            /\ a \notin wsClients
            /\ a \in connClosed
            /\ offered[a] = failedAt[a]
            /\ Len(written[a]) = failedAt[a] - firstEvent[a]
            /\ \A i \in 1..Len(written[a]) : written[a][i] /= dequeued[failedAt[a]]
            /\ Cardinality({i \in 1..Len(pushed) : pushed[i] = dequeued[failedAt[a]]}) = 1
            /\ \A b \in wsClients :
                   (firstEvent[b] = failedAt[a] + 1 /\ Done(b) >= firstEvent[b])
                       => written[b][1] = dequeued[failedAt[a] + 1]

\* a failed on the first event; b registered after that dispatch and has
\* been written the second event
C9_Witness ==
    \E a \in Conns : \E b \in wsClients :
        /\ failedAt[a] = 1
        /\ firstEvent[b] = 2
        /\ Len(written[b]) = 1
        /\ written[b][1] = dequeued[2]

(* C10. No interleaving of fan-outs: when the broadcaster holds event N+1   *)
(* every registered connection that was registered in time for event N has  *)
(* been offered N; no connection is offered N+1 while such a connection     *)
(* has not been offered N.                                                  *)
C10_NoInterleaving ==
    \A d \in wsClients :
        /\ firstEvent[d] < Len(dequeued) => offered[d] >= Len(dequeued) - 1
        /\ \A c \in Conns : firstEvent[d] < offered[c] => offered[d] >= offered[c] - 1

\* in the middle of the fan-out of the second event: one connection has
\* been offered it, another is still at the first
C10_Witness ==
    \E c \in wsClients : \E d \in wsClients :
        /\ hubPc = "iter"
        /\ offered[c] = 2
        /\ offered[d] = 1
        /\ d \in hubTodo

C12_NoDedup ==
    /\ pollerPc \in {"wait", "lock", "call"} => Len(pushed) = nextId
    /\ pollerPc = "resp" => Len(pushed) = nextId - Len(resp.data)
    /\ pollerPc = "send" => Len(pushed) = nextId - Len(mutations) + idx - 1
    /\ pollerPc = "advance"
         => /\ Len(pushed) = nextId - Len(mutations) + idx
            /\ pushed[Len(pushed)] = Marshal(mutations[idx])

\* an event whose timestamp is not above the cursor is on the channel
C12_Witness ==
    /\ pollerPc = "advance"
    /\ UnixMilli(mutations[idx].ts) <= lastPollTime
    /\ wsBroadcast /= <<>>
    /\ wsBroadcast[Len(wsBroadcast)] = Marshal(mutations[idx])

(* C13. Bounded queue: the channel never holds more than its capacity; the  *)
(* only step that adds a payload is the poller's send and the only step     *)
(* that removes one is the broadcaster's receive, which takes the oldest.   *)
C13_BoundedQueue ==
    /\ [](Len(wsBroadcast) <= QueueCap)
    /\ [][Len(wsBroadcast') > Len(wsBroadcast)
            => /\ pollerPc = "send" /\ pollerPc' = "advance"
               /\ hubPc' = hubPc
               /\ wsBroadcast' = Append(wsBroadcast, Marshal(mutations[idx]))]_vars
    /\ [][Len(wsBroadcast') < Len(wsBroadcast)
            => /\ hubPc = "recv" /\ hubPc' = "lock"
               /\ pollerPc' = pollerPc
               /\ wsBroadcast' = Tail(wsBroadcast)]_vars

\* the channel is full while the poller waits for its next tick
C13_Witness ==
    /\ Len(wsBroadcast) = QueueCap
    /\ pollerPc = "wait"
    /\ hubPc = "iter"

\* connections whose handler has registered them
Registered(c) == connPc[c] \in {"open", "closing", "deregistering", "closed"}

(* C14. Registry membership: in every interleaving the registry is exactly  *)
(* the set of connections that were registered and have been removed       *)
(* neither by their handler nor by the broadcaster; and at most one task    *)
(* is inside a critical section of wsClientsMu, the one that holds it.      *)
C14_RegistryMembership ==
    /\ wsClients = {c \in Conns : Registered(c) /\ connPc[c] /= "closed"
                                                /\ failedAt[c] = 0}
    /\ (hubPc = "iter") = (wsClientsMu = MuHub)
    /\ \A c \in Conns :
           (connPc[c] \in {"registering", "deregistering"}) = (wsClientsMu = MuConn(c))
    /\ Cardinality({c \in Conns : connPc[c] \in {"registering", "deregistering"}})
           + (IF hubPc = "iter" THEN 1 ELSE 0) <= 1

\* one connection was removed by the broadcaster, another by its handler,
\* and a handler waits for the lock while the broadcaster holds it
C14_Witness ==
    \E a \in Conns : \E b \in Conns :
        /\ failedAt[a] > 0
        /\ connPc[a] = "closing"
        /\ connPc[b] = "closed"
        /\ failedAt[b] = 0
        /\ firstEvent[b] > 0
        /\ hubPc = "iter"

(* C15. Registry idempotence: adding a connection that is in the registry   *)
(* leaves the registry as it is; a handler's deregistration of a            *)
(* connection the broadcaster has already removed leaves the registry as    *)
(* it is and the handler ends normally.                                     *)
C15_RegistryIdempotent ==
    /\ [](\A c \in wsClients : RegistryAdd(c) = wsClients)
    /\ [][\A c \in Conns :
            (connPc[c] = "deregistering" /\ c \notin wsClients /\ connPc'[c] /= connPc[c])
                => (wsClients' = wsClients /\ connPc'[c] = "closed")]_vars

\* the handler of a connection the broadcaster removed has deregistered it
\* while another connection is registered
C15_Witness ==
    \E a \in Conns :
        /\ failedAt[a] > 0
        /\ connPc[a] = "closed"
        /\ wsClients /= {}

\* the three states of a connection: Connecting until the handler has
\* registered it, Open until the handler's deferred function has run,
\* Closed from then on
Phase(c) ==
    IF connPc[c] \in {"none", "upgraded", "registering"} THEN "Connecting"
    ELSE IF connPc[c] = "closed" THEN "Closed" ELSE "Open"

(* C16. Connection handler state machine: a connection goes Connecting ->   *)
(* Open -> Closed and stays Closed; it is in the registry only while Open;  *)
(* a read error is followed only by the deferred deregistration; a Closed   *)
(* connection is not in the registry and its transport has been closed.     *)
C16_HandlerStateMachine ==
    /\ [](\A c \in wsClients : Phase(c) = "Open")
    /\ [](\A c \in Conns : Phase(c) = "Closed" => (c \notin wsClients /\ c \in connClosed))
    /\ [][\A c \in Conns :
            /\ Phase(c)' /= Phase(c)
                 => \/ Phase(c) = "Connecting" /\ Phase(c)' = "Open"
                    \/ Phase(c) = "Open" /\ Phase(c)' = "Closed"
            /\ connPc[c] = "closing" => connPc'[c] \in {"closing", "deregistering"}
            /\ connPc[c] = "deregistering" => connPc'[c] \in {"deregistering", "closed"}]_vars

\* a connection that was registered and written to has been closed by its
\* handler after a read error
C16_Witness ==
    \E c \in Conns :
        /\ Phase(c) = "Closed"
        /\ failedAt[c] = 0
        /\ written[c] /= <<>>

(* C17. Fatal startup: unless connectToDaemon has succeeded, the poller and *)
(* the broadcaster are not running and no connection is accepted; after a   *)
(* failed connect the process has exited and cannot connect any more.       *)
C17_FatalStartup ==
    /\ mainPc /= "serving"
         => /\ pollerPc = "off"
            /\ hubPc = "off"
            /\ \A c \in Conns : connPc[c] = "none"
            /\ ~daemonClient
    /\ (pollerPc /= "off" \/ hubPc /= "off" \/ \E c \in Conns : connPc[c] /= "none")
         => (mainPc = "serving" /\ daemonClient)
    /\ mainPc = "exited" => ~ENABLED ConnectOk

\* the process has exited at startup
C17_Witness ==
    /\ mainPc = "exited"
    /\ pollerPc = "off"
    /\ hubPc = "off"

(* C18. Entering Connected: when the page's WebSocket opens, the fallback   *)
(* interval stops loading and the open callback triggers one full refresh   *)
(* (all four loads) at once, without waiting for a message.                 *)
C18_OpenRefreshes ==
    /\ lastEvent = "open" => (wsConnected /\ triggered = FullRefresh)
    /\ (lastEvent = "interval" /\ wsConnected) => triggered = {}

\* the page has no live WebSocket and has run DOMContentLoaded
Disconnected == pagePc = "ready" /\ \A s \in Sockets : sockState[s] \notin {"connecting", "open"}

\* a connection attempt is under way
Connecting == \E s \in Sockets : sockState[s] = "connecting"

\* the close event of socket s fires in this step
Closes(s) == sockState[s] /= "closed" /\ sockState'[s] = "closed"

(* C19. Reconnect: each WebSocket of the page that fails or closes, a       *)
(* failed attempt included, schedules exactly one connectWebSocket after    *)
(* 5000 ms, at its close event and nowhere else; so the page always has     *)
(* exactly one of a live socket and a pending reconnect, and a              *)
(* disconnected page always starts another attempt.                         *)
C19_Reconnect ==
    /\ [][\A s \in Sockets : Closes(s) => timers' = Append(timers, ReconnectDelay)]_vars
    /\ [][Len(timers') > Len(timers) => \E s \in Sockets : Closes(s)]_vars
    /\ [](pagePc = "ready" => Len(timers) + Cardinality({s \in Sockets : Live(s)}) = 1)
    /\ [](\A i \in 1..Len(timers) : timers[i] = 5000)
    /\ Disconnected ~> Connecting

\* after a failed attempt and a reconnect that opened and then closed, the
\* timer has fired a second time and a third attempt is under way
C19_Witness ==
    /\ lastEvent = "timer"
    /\ ws = 1
    /\ sockState[1] = "connecting"
    /\ sockState[2] = "closed"
    /\ timers = <<>>
    /\ ~wsConnected

(* C20. Message handling: every message that arrives on the open WebSocket  *)
(* triggers the full refresh (all four loads), whatever it carries.         *)
C20_MessageRefreshes ==
    lastEvent = "message" => triggered = FullRefresh

\* the page's WebSocket is open
Connected == \E s \in Sockets : sockState[s] = "open"

(* C21. Fallback polling: a tick of the fallback interval triggers loads    *)
(* if and only if no WebSocket of the page is open at that tick; that       *)
(* covers the time before the first open and the time after an error or a   *)
(* close. The flag the tick tests, wsConnected, is true exactly while a     *)
(* WebSocket is open.                                                       *)
C21_FallbackWhenNotConnected ==
    /\ wsConnected <=> Connected
    /\ lastEvent = "interval" => (triggered /= {} <=> ~Connected)
    /\ lastEvent = "interval" => triggered \in {{}, FallbackRefresh}

\* a tick loaded after the WebSocket that had been open reported an error
C21_Witness ==
    /\ lastEvent = "interval"
    /\ triggered = FallbackRefresh
    /\ \E s \in Sockets : sockState[s] = "errored"
    /\ \E s \in Sockets : sockState[s] = "closed"

\* the state right after a message that parsed has been handled
JustRefreshed ==
    /\ lastEvent = "message"
    /\ triggered = FullRefresh
    /\ FullRefresh \subseteq pending

(* C22. Idempotent refresh: a message changes no view by itself, it only    *)
(* starts the four loads; a load that returns shows what the daemon holds   *)
(* then or leaves its view alone; so handing the same event to the page a   *)
(* second time right after the first leaves the page in the very same       *)
(* state.                                                                   *)
C22_IdempotentRefresh ==
    /\ [][(lastEvent' = "message" /\ pending \subseteq pending') => views' = views]_vars
    /\ [][\A l \in Loads : views'[l] /= views[l] => (l \in pending /\ views'[l] = upstream)]_vars
    /\ [](JustRefreshed
            => \A s \in Sockets : \A data \in Payloads :
                   (sockState[s] = "open" /\ JSONParse(data).ok)
                       => ENABLED (SockMessage(s, data) /\ UNCHANGED vars))

\* an event was handed to the page twice while its loads were in flight,
\* and the daemon's data had changed
C22_Witness ==
    /\ JustRefreshed
    /\ Connected
    /\ upstream = 1
    /\ \A l \in Loads : views[l] = 0

(* C23. No overlapping ticks: the poller has a GetMutations call in flight  *)
(* exactly while it holds daemonClientMu, so never two; a new tick cannot   *)
(* start while the poller is taking the lock, calling, decoding or pushing  *)
(* its batch; and when the poller waits for a tick nothing of the previous  *)
(* tick is left over.                                                       *)
C23_NoOverlappingTicks ==
    /\ (pollerPc = "call") = (daemonClientMu = "poller")
    /\ pollerPc \in {"lock", "call", "resp", "send", "advance"} => ~ENABLED PollTick
    /\ pollerPc = "wait" => (resp = NoResp /\ mutations = <<>> /\ idx = 1)

\* the poller is blocked in the middle of a two-event batch, on a full
\* channel, and no tick can start
C23_Witness ==
    /\ pollerPc = "send"
    /\ idx = 2
    /\ Len(wsBroadcast) = QueueCap
    /\ hubPc = "recv"
    /\ ~ENABLED PollTick

(* C24. No retention: a connection is written only events whose dispatch    *)
(* started after it registered, each at most once and none that the         *)
(* broadcaster has not just received; an event dispatched before a          *)
(* connection registered never reaches it.                                  *)
C24_NoRetention ==
    \A c \in Conns :
        \A i \in 1..Len(written[c]) :
            /\ firstEvent[c] >= 1
            /\ written[c][i][1] >= firstEvent[c]
            /\ written[c][i][1] <= Len(dequeued)
            /\ written[c][i] = dequeued[written[c][i][1]]
            /\ \A k \in 1..(i - 1) : written[c][k][1] < written[c][i][1]

\* one connection was written both events; another registered after the
\* dispatch of the first event had ended and was written the second only
C24_Witness ==
    \E c \in Conns : \E d \in Conns :
        /\ Len(written[d]) = 2
        /\ firstEvent[c] = 2
        /\ written[c] = <<dequeued[2]>>
        /\ hubPc = "recv"

(* C25. Cursor single ownership: the cursor changes only in the poller's    *)
(* step after a send, and the poller's copy of it for the call is taken     *)
(* only in the poller's step that makes the call; every step of the         *)
(* broadcaster, of a connection handler (registration, deregistration,      *)
(* read error), every failed write and every step of an HTTP read handler   *)
(* leaves the cursor as it is.                                              *)
C25_CursorOwnership ==
    /\ [][lastPollTime' /= lastPollTime
            => (pollerPc = "advance" /\ pollerPc' \in {"send", "wait"})]_vars
    /\ [][pollerPc' = pollerPc => (lastPollTime' = lastPollTime /\ since' = since)]_vars
    /\ [][(since' /= since /\ since' /= 0)
            => (pollerPc = "lock" /\ pollerPc' = "call" /\ since' = lastPollTime)]_vars

\* the cursor has advanced; since then a write has failed and the
\* connection's handler has deregistered it
C25_Witness ==
    /\ lastPollTime > 0
    /\ \E c \in Conns : failedAt[c] > 0 /\ connPc[c] = "closed"

\* the read handlers that are inside their RPC call
Calling == {h \in Reqs : reqPc[h] = "call"}

(* C26. Read endpoints and upstream failure: a read handler that finds no   *)
(* daemon client, whose RPC call fails or whose RPC call returns data that  *)
(* does not decode answers with an error status (404 for a failed issue     *)
(* lookup, 500 otherwise) and returns; a handler that has returned, with    *)
(* whatever outcome, no longer holds daemonClientMu: the lock is held by a  *)
(* read handler exactly while one is inside its RPC call.                   *)
C26_ReadErrorsSurface ==
    /\ \A h \in Reqs :
        /\ reqPc[h] = "done" <=> reqStatus[h] /= "none"
        /\ reqOutcome[h] \in {"badid", "nil", "err", "malformed"}
             => (reqPc[h] = "done" /\ reqStatus[h] \in ErrorStatuses)
        /\ reqOutcome[h] = "err" => reqStatus[h] = RpcErrorStatus(reqKind[h])
        /\ reqOutcome[h] \in {"nil", "malformed"} => reqStatus[h] = "StatusInternalServerError"
        /\ reqOutcome[h] = "ok" => reqStatus[h] = "StatusOK"
    /\ (daemonClientMu = "http") = (Calling /= {})
    /\ (\A h \in Reqs : reqPc[h] \in {"idle", "done"}) => daemonClientMu /= "http"

\* one request ended on a failed issue lookup, the other on undecodable
\* data, and the lock is free again
C26_Witness ==
    \E g \in Reqs : \E h \in Reqs :
        /\ reqPc[g] = "done" /\ reqKind[g] = "detail" /\ reqOutcome[g] = "err"
        /\ reqStatus[g] = "StatusNotFound"
        /\ reqPc[h] = "done" /\ reqKind[h] = "epics" /\ reqOutcome[h] = "malformed"
        /\ daemonClientMu = "free"

(* C28. The poller does not hold daemonClientMu while it pushes: it holds   *)
(* the lock only during the GetMutations call, so when it is about to send  *)
(* or blocked on the full channel a read handler that asks for the lock     *)
(* gets it unless another read handler has it.                              *)
C28_NoLockWhilePushing ==
    /\ pollerPc \in {"resp", "send", "advance", "wait"} => daemonClientMu /= "poller"
    /\ \A h \in Reqs :
           (pollerPc = "send" /\ reqPc[h] = "lock" /\ Calling = {})
               => ENABLED ReqLock(h)

\* the poller is blocked on the full channel and a read handler is inside
\* its RPC call
C28_Witness ==
    /\ pollerPc = "send"
    /\ Len(wsBroadcast) = QueueCap
    /\ ~ENABLED PollSend
    /\ Calling /= {}

(* C29. Upstream calls are serialized: counting the poller's GetMutations   *)
(* call and the RPC calls of the read handlers, at most one call into the   *)
(* daemon client is in flight, and daemonClientMu is locked while it is.    *)
C29_CallsSerialized ==
    /\ Cardinality(Calling) + (IF pollerPc = "call" THEN 1 ELSE 0) <= 1
    /\ (Calling /= {} \/ pollerPc = "call") => daemonClientMu /= "free"

\* one read handler is inside its call while another read handler and the
\* poller wait for the lock
C29_Witness ==
    \E g \in Reqs : \E h \in Reqs :
        /\ reqPc[g] = "call"
        /\ reqPc[h] = "lock"
        /\ pollerPc = "lock"

(* C30. Single writer: a write to a connection (successful or failed)       *)
(* happens only in a step of the broadcaster's range loop, while the        *)
(* broadcaster holds wsClientsMu, to one connection that is in the          *)
(* registry in that state; so never to a connection its handler has         *)
(* deregistered, and the record of one connection at a time changes.        *)
C30_SingleWriter ==
    [][\A c \in Conns :
          (written'[c] /= written[c] \/ offered'[c] /= offered[c])
              => /\ hubPc = "iter" /\ hubPc' = "iter"
                 /\ wsClientsMu = MuHub
                 /\ c \in wsClients
                 /\ connPc[c] \in {"open", "closing"}
                 /\ c \notin connClosed
                 /\ offered'[c] = Len(dequeued)
                 /\ \A d \in Conns \ {c} :
                        written'[d] = written[d] /\ offered'[d] = offered[d]]_vars

\* a connection was written an event while its handler, after a read
\* error, was waiting for the lock to deregister it; then it deregistered
C30_Witness ==
    \E c \in Conns :
        /\ connPc[c] = "closed"
        /\ failedAt[c] = 0
        /\ Len(written[c]) = 2
        /\ hubPc = "recv"

\* whoever holds a lock is at a step that waits for nothing but the return
\* of its RPC call or of its write
HolderMoves ==
    /\ daemonClientMu = "poller" => ENABLED PollCallErr
    /\ daemonClientMu = "http" => \E h \in Reqs : ENABLED ReqCallOk(h)
    /\ wsClientsMu = MuHub => ENABLED (HubUnlock \/ \E c \in Conns : HubWriteOk(c))
    /\ \A c \in Conns : wsClientsMu = MuConn(c) => ENABLED (Register(c) \/ Deregister(c))

\* the poller is blocked on the full channel
PollerBlocked == pollerPc = "send" /\ Len(wsBroadcast) = QueueCap

EnqueuedMillis(ps) == {0} \cup {UnixMilli(ps[i][2]) : i \in 1..Len(ps)}

(* C31. Cursor tracks what was enqueued: whenever the poller waits for its  *)
(* next tick, lastPollTime is the largest timestamp (in milliseconds) of    *)
(* all the events it has ever sent on wsBroadcast, 0 when it has sent none; *)
(* while the poller is about to send event idx of a batch, or is blocked on *)
(* that send, lastPollTime covers the events sent so far, which of this     *)
(* batch are exactly those before idx.                                      *)
C31_CursorTracksEnqueued ==
    /\ pollerPc = "wait" => lastPollTime = SetMax(EnqueuedMillis(pushed))
    /\ pollerPc = "send"
         => /\ lastPollTime = SetMax(EnqueuedMillis(pushed))
            /\ lastPollTime = CursorAfter(idx - 1)
            /\ Len(pushed) >= idx - 1
            /\ \A i \in 1..(idx - 1) :
                   pushed[Len(pushed) - (idx - 1) + i] = Marshal(mutations[i])

\* the poller is blocked on the second event of a batch, which is newer
\* than the first; the cursor is at the first
C31_Witness ==
    /\ pollerPc = "send"
    /\ Len(wsBroadcast) = QueueCap
    /\ ~ENABLED PollSend
    /\ idx = 2
    /\ lastPollTime = UnixMilli(mutations[1].ts)
    /\ UnixMilli(mutations[2].ts) > lastPollTime

\* no payload occurs twice in the sequence ps
NoRepeat(ps) == \A i, k \in 1..Len(ps) : ps[i] = ps[k] => i = k

\* the broadcaster holds a received event that it has not finished fanning out
Dispatching == hubPc \in {"lock", "iter"}

(* C32. Registration is atomic with respect to a dispatch: no registration  *)
(* takes effect inside the range over wsClients (a handler that wants to    *)
(* register then waits for the lock), so a connection that registers while  *)
(* the broadcaster holds event E is either in the registry before the range *)
(* starts or not until it is over; no connection is ever written an event   *)
(* twice; and a connection that is registered and has had no failed write   *)
(* has been written every event received after its registration, once each, *)
(* in order, besides at most the event E that was in hand when it           *)
(* registered.                                                              *)
C32_AtomicRegistration ==
    /\ hubPc = "iter"
         => \A c \in Conns : /\ connPc[c] /= "registering"
                              /\ ~ENABLED RegLock(c)
                              /\ c \in hubTodo => c \in wsClients
    /\ \A c \in Conns : NoRepeat(written[c])
    /\ \A c \in wsClients :
           failedAt[c] = 0
             => /\ ExactlyOnceInOrder(c)
                /\ Len(written[c]) <= Len(dequeued) - firstEvent[c] + 1

\* a handler is inside its registration while the broadcaster holds the
\* second event and waits for the lock; an earlier connection has the first
C32_Witness ==
    \E c, d \in Conns :
        /\ Dispatching
        /\ connPc[c] = "registering"
        /\ wsClientsMu = MuConn(c)
        /\ ~ENABLED HubLock
        /\ Len(dequeued) = 2
        /\ d \in wsClients
        /\ written[d] = <<dequeued[1]>>

\* the broadcaster has removed c after a failed write
RemovedByHub(c) == failedAt[c] > 0

(* C33. A connection the broadcaster removed after a failed write is fully  *)
(* cleaned up: the broadcaster has closed it and deleted it from the        *)
(* registry; the handler's read on it can only fail, so the handler         *)
(* eventually reaches "closed"; the handler's deferred delete finds the     *)
(* connection absent and leaves the registry as it is; and the connection   *)
(* is never in the registry again, nor does its handler leave "closed".     *)
C33_RemovedClientCleanedUp ==
    /\ [](\A c \in Conns :
            RemovedByHub(c)
              => /\ c \in connClosed
                 /\ c \notin wsClients
                 /\ Registered(c)
                 /\ connPc[c] = "open" => (ENABLED ReadErr(c) /\ ~ENABLED ReadOk(c)))
    /\ \A c \in Conns : RemovedByHub(c) ~> (connPc[c] = "closed")
    /\ [][\A c \in Conns :
             (RemovedByHub(c) /\ connPc[c] = "deregistering" /\ connPc'[c] /= connPc[c])
               => /\ connPc'[c] = "closed"
                  /\ wsClients' = wsClients
                  /\ connClosed' = connClosed]_vars
    /\ [][\A c \in Conns :
             RemovedByHub(c)
               => /\ c \notin wsClients'
                  /\ connPc[c] = "closed" => connPc'[c] = "closed"]_vars

\* the handler of a connection the broadcaster removed has finished, and
\* the broadcaster has since fanned out another event to a connection that
\* is still registered
C33_Witness ==
    \E c \in Conns : \E d \in wsClients :
        /\ RemovedByHub(c)
        /\ failedAt[c] = 1
        /\ connPc[c] = "closed"
        /\ c \notin wsClients
        /\ Len(written[d]) = 2

\* the WebSocket objects whose close event has not fired yet
LiveSockets == {s \in Sockets : Live(s)}

(* C34. No reconnect storm: at every moment the page has at most one        *)
(* WebSocket that is connecting or open, at most one reconnect timer        *)
(* pending, and never a pending timer together with a socket whose close    *)
(* has not fired; the error event of a socket schedules nothing and the     *)
(* close event that follows it schedules exactly one reconnect, so error    *)
(* and close of one socket together schedule one.                           *)
C34_NoReconnectStorm ==
    /\ [](Cardinality({s \in Sockets : sockState[s] \in {"connecting", "open"}}) <= 1)
    /\ [](Len(timers) <= 1)
    /\ [](Cardinality(LiveSockets) + Len(timers) <= 1)
    /\ [][\A s \in Sockets :
             (sockState'[s] = "errored" /\ sockState[s] /= "errored")
               => timers' = timers]_vars
    /\ [][\A s \in Sockets :
             (sockState[s] = "errored" /\ Closes(s))
               => (timers = <<>> /\ timers' = <<ReconnectDelay>>)]_vars

\* the socket made by a reconnect has had its error event and its close is
\* still to come: no timer is pending, the first socket is closed
C34_Witness ==
    \E s, r \in Sockets :
        /\ sockState[r] = "closed"
        /\ sockState[s] = "errored"
        /\ ws = s
        /\ lastEvent = "error"
        /\ timers = <<>>

(* C35 as stated. Fallback freshness: while no WebSocket of the page is     *)
(* open, a tick of the fallback interval starts the same loads a pushed     *)
(* message starts, all four of them (statistics, ready queue, epics, all    *)
(* issues).                                                                 *)
C35_FallbackFreshness ==
    (lastEvent = "interval" /\ ~Connected) => triggered = FullRefresh

====
